---- MODULE Spec2Model ----
(***************************************************************************)
(* Model of diffupy/validate_inputs.py: the three input validators         *)
(* _validate_scores, _validate_graph and _validate_K.  Each validator is a *)
(* pure function of its input; it is modelled as an operator that returns  *)
(* the outcome of the call (a silent return, or the exception raised and   *)
(* the line that raises it).  The state machine draws one input and calls  *)
(* the validator on it.                                                    *)
(***************************************************************************)
EXTENDS Integers, Sequences, FiniteSets, TLC

VARIABLES target, scores, graph, k, outcome

vars == <<target, scores, graph, k, outcome>>

\* ------------------------------------------------------------------ bounds
\* Largest number of rows / columns / cells of a scores matrix.
MaxRows == 3
MaxCols == 2
MaxCells == 6
\* Largest dimension of a kernel matrix.
MaxK == 2
\* Largest number of nodes / edges of a graph.
MaxNodes == 3
MaxEdges == 2

\* ----------------------------------------------------------- Python values
\* A Python object: its type t, its numeric value n (numbers) and its text s
\* (strings; "nan" marks the floating not-a-number).
PyNone == [t |-> "NoneType", n |-> 0, s |-> ""]
PyStr(x) == [t |-> "str", n |-> 0, s |-> x]
PyFloat(x) == [t |-> "numpy.float64", n |-> x, s |-> ""]
PyNaN == [t |-> "numpy.float64", n |-> 0, s |-> "nan"]
PyInt(x) == [t |-> "int", n |-> x, s |-> ""]
NpInt(x) == [t |-> "numpy.int64", n |-> x, s |-> ""]
PyBool(b) == [t |-> "bool", n |-> IF b THEN 1 ELSE 0, s |-> ""]

IsNaN(x) == x.t = "numpy.float64" /\ x.s = "nan"
IsNumber(x) == x.t \in {"numpy.float64", "int", "numpy.int64", "bool"}

\* isinstance(x, float): numpy.float64 is a subclass of float.
IsInstanceFloat(x) == x.t \in {"float", "numpy.float64"}
\* isinstance(x, int): bool is a subclass of int, numpy.int64 is not.
IsInstanceInt(x) == x.t \in {"int", "bool"}

\* x is None
IsNone(x) == x.t = "NoneType"

\* bool(x)
Truthy(x) ==
    CASE x.t = "NoneType" -> FALSE
      [] x.t = "str" -> x.s # ""
      [] IsNaN(x) -> TRUE
      [] OTHER -> x.n # 0

\* x == y: numbers compare by value, a NaN equals nothing, a number never equals
\* a string or None.
PyEq(x, y) ==
    IF IsNumber(x) /\ IsNumber(y)
    THEN ~IsNaN(x) /\ ~IsNaN(y) /\ x.n = y.n
    ELSE x.t = y.t /\ x.s = y.s

\* x in [l1, l2, ...] for a list of literals: identity or equality.  The
\* literals are strings and None, of which every equal object is also identical
\* for this test.
PyIn(x, lits) == \E l \in lits : PyEq(x, l)

\* x is [ ... ]: identity with a freshly built list, which no object has.
IsFreshList(x) == FALSE

\* any(xs) for a sequence of objects: a bool.
PyAny(xs) == PyBool(\E i \in 1..Len(xs) : Truthy(xs[i]))

\* b < 0 for a bool b.
PyLessThanZero(b) == b.n < 0

\* ------------------------------------------------------------- outcomes
Pending == [kind |-> "pending", line |-> 0, msg |-> <<>>, advisories |-> <<>>]
Returned == [kind |-> "returned", line |-> 0, msg |-> <<>>, advisories |-> <<>>]
Raise(kind, line, msg) == [kind |-> kind, line |-> line, msg |-> msg, advisories |-> <<>>]
NoFailure == Returned

\* ----------------------------------------------------------------- Matrix
\* A Matrix: the numpy array mat (a sequence of rows), its dtype, and the two
\* label lists.
Range(f) == {f[i] : i \in DOMAIN f}
NRows(m) == Len(m.mat)
NCols(m) == Len(m.mat[1])

\* iter(Matrix): the (value, col_label, row_label) triples, row by row.
RECURSIVE MatrixIter(_, _, _)
MatrixIter(m, i, j) ==
    IF i > NRows(m) THEN <<>>
    ELSE IF j > NCols(m) THEN MatrixIter(m, i + 1, 1)
    ELSE <<[score |-> m.mat[i][j], col_label |-> m.cols_labels[j],
            row_label |-> m.rows_labels[i]]>> \o MatrixIter(m, i, j + 1)

Iter(m) == MatrixIter(m, 1, 1)

\* 'int' in str(dtype)
DtypeHasInt(dtype) == dtype \in {"int64"}

\* not 'float' and 'int' in str(dtype): Python reads it as
\* (not 'float') and ('int' in str(dtype)), and 'float' is a non-empty string.
DtypeNotNumeric(dtype) == (~Truthy(PyStr("float"))) /\ DtypeHasInt(dtype)

\* ------------------------------------------------------- _validate_scores
\* A faulty variant of the element checks, which lets a None cell pass.
ScoreElementFailureSkipsNone(score) ==
    IF IsNone(score) THEN NoFailure
    ELSE IF IsFreshList(score)
    THEN Raise("ValueError", 37, <<"Scores input cannot contain NA values.">>)
    ELSE IF ~IsInstanceFloat(score) /\ ~IsInstanceInt(score)
    THEN Raise("ValueError", 39, <<"The scores in background are not numeric.">>)
    ELSE NoFailure

\* The element checks of one cell (lines 34-39).
ScoreElementFailure(score) ==
    IF IsNone(score)
    THEN Raise("ValueError", 35, <<"Scores input cannot contain None.">>)
    ELSE IF IsFreshList(score)
    THEN Raise("ValueError", 37, <<"Scores input cannot contain NA values.">>)
    ELSE IF ~IsInstanceFloat(score) /\ ~IsInstanceInt(score)
    THEN Raise("ValueError", 39, <<"The scores in background are not numeric.">>)
    ELSE NoFailure

\* The label checks of one cell (lines 42-45).
ScoreLabelFailure(col_label, row_label) ==
    IF PyIn(col_label, {PyStr("Nan"), PyNone})
    THEN Raise("ValueError", 43,
          <<"The scores in background must have row names according to the scored nodes.">>)
    ELSE IF PyIn(row_label, {PyStr("Nan"), PyNone})
    THEN Raise("ValueError", 45,
          <<"The scores in background must have col names to differentiate score sets.">>)
    ELSE NoFailure

\* The loop over the cells (lines 32-45): the first failure, if any.
RECURSIVE ScoresCellLoop(_, _)
ScoresCellLoop(cells, i) ==
    IF i > Len(cells) THEN NoFailure
    ELSE LET e == ScoreElementFailure(cells[i].score)
             l == ScoreLabelFailure(cells[i].col_label, cells[i].row_label)
         IN  IF e # NoFailure THEN e
             ELSE IF l # NoFailure THEN l
             ELSE ScoresCellLoop(cells, i + 1)

\* np.std(mat, axis=0)[j]: the standard deviation of column j over the rows.
\* The values of the model are whole numbers, so the deviation is kept as the
\* exact scaled variance n * sum(x^2) - sum(x)^2 (= n^2 * sd^2); a column with
\* a NaN has the deviation NaN.
RECURSIVE ColSum(_, _, _)
ColSum(mat, j, i) == IF i = 0 THEN 0 ELSE mat[i][j].n + ColSum(mat, j, i - 1)
RECURSIVE ColSumSq(_, _, _)
ColSumSq(mat, j, i) ==
    IF i = 0 THEN 0 ELSE mat[i][j].n * mat[i][j].n + ColSumSq(mat, j, i - 1)

NpStd(mat, j) ==
    IF \E i \in 1..Len(mat) : IsNaN(mat[i][j]) THEN PyNaN
    ELSE PyFloat(Len(mat) * ColSumSq(mat, j, Len(mat))
                 - ColSum(mat, j, Len(mat)) * ColSum(mat, j, Len(mat)))

\* np.std raises a TypeError on an array holding an object that is no number.
NpStdRaises(mat) ==
    \E i \in 1..Len(mat) : \E j \in 1..Len(mat[1]) : ~IsNumber(mat[i][j])

\* std_mat = Matrix(np.std(scores.mat, axis=0), ['sd'], scores.cols_labels)
StdMat(m) ==
    [mat |-> <<[j \in 1..NCols(m) |-> NpStd(m.mat, j)]>>, dtype |-> "float64",
     rows_labels |-> <<PyStr("sd")>>, cols_labels |-> m.cols_labels]

\* str(label)
PyStrOf(label) == IF IsNone(label) THEN "None" ELSE label.s

\* A faulty variant of the standard deviation checks, which names the row
\* label ('sd') in place of the column label.
SdFailureNamesRow(sd, col_label, row_label) ==
    IF PyIn(sd, {PyStr("Nan"), PyNone})
    THEN Raise("ValueError", 51,
          <<"Standard deviation in background is NA in column:", PyStrOf(row_label)>>)
    ELSE IF PyEq(sd, PyInt(0))
    THEN Raise("ValueError", 53,
          <<"Standard deviation in background is 0 in column:", PyStrOf(row_label)>>)
    ELSE NoFailure

\* The checks of one standard deviation (lines 50-53).
SdFailure(sd, col_label, row_label) ==
    IF PyIn(sd, {PyStr("Nan"), PyNone})
    THEN Raise("ValueError", 51,
          <<"Standard deviation in background is NA in column:", PyStrOf(col_label)>>)
    ELSE IF PyEq(sd, PyInt(0))
    THEN Raise("ValueError", 53,
          <<"Standard deviation in background is 0 in column:", PyStrOf(col_label)>>)
    ELSE NoFailure

\* The loop over the standard deviations (lines 49-53).
RECURSIVE SdLoop(_, _)
SdLoop(cells, i) ==
    IF i > Len(cells) THEN NoFailure
    ELSE LET f == SdFailure(cells[i].score, cells[i].col_label, cells[i].row_label)
         IN  IF f # NoFailure THEN f ELSE SdLoop(cells, i + 1)

validate_scores(m) ==
    IF ~(Len(m.cols_labels) > 0)
    THEN Raise("ValueError", 23,
          <<"Scores must be a named list but supplied list contains no names.">>)
    ELSE IF ~(Len(m.rows_labels) > 0)
    THEN Raise("ValueError", 25,
          <<"Scores must be a named list but supplied list contains no names.">>)
    ELSE IF DtypeNotNumeric(m.dtype)
    THEN Raise("ValueError", 29, <<"The scores in background are not numeric.">>)
    ELSE LET c == ScoresCellLoop(Iter(m), 1)
         IN  IF c # NoFailure THEN c
             ELSE IF NpStdRaises(m.mat)
             THEN Raise("TypeError", 47, <<"unsupported operand type(s)">>)
             ELSE SdLoop(Iter(StdMat(m)), 1)

\* -------------------------------------------------------- _validate_graph
\* A graph argument: a Python object (t, n, s) that, when it is a networkx
\* graph, has nodes (the 'name' attribute of each node, None when the node has
\* none) and edges (each with or without a 'weight' attribute).
PyTuple(len) == [t |-> "tuple", n |-> len, s |-> ""]

\* isinstance(graph, nx.Graph): nx.DiGraph is a subclass of nx.Graph.
IsInstanceGraph(g) == g.t \in {"networkx.Graph", "networkx.DiGraph"}

\* nx.is_directed(graph)
IsDirected(g) == g.t = "networkx.DiGraph"

\* get_label_list_graph(graph, 'name'): the name of every node, in node order.
get_label_list_graph(g) == g.nodes

\* nodes_names in [None, 'NA', 'Nan']: a list equals neither None nor a string.
ListInLiterals(xs, lits) == FALSE

\* np.unique sorts its argument, and comparing None with anything raises a
\* TypeError; a single element is not compared.
NpUniqueRaises(xs) == Len(xs) >= 2 /\ \E i \in 1..Len(xs) : IsNone(xs[i])
\* len(np.unique(xs))
NpUniqueLen(xs) == Cardinality(Range(xs))

\* A faulty variant of the uniqueness test, with > in place of !=.
HasNonUniqueNamesGreater(xs) == NpUniqueLen(xs) > Len(xs)

\* len(np.unique(nodes_names)) != len(nodes_names)   (line 72)
HasNonUniqueNames(xs) == NpUniqueLen(xs) # Len(xs)

\* nx.get_edge_attributes(graph, 'weight'): a dict from the edge (u, v) to its
\* weight, for the edges that have one.  Its keys, which is what iterating the
\* dict yields:
WeightedEdges(g) == SelectSeq(g.edges, LAMBDA e : e.has)
EdgeWeightKeys(g) == [i \in 1..Len(WeightedEdges(g)) |-> PyTuple(2)]

validate_graph(g) ==
    IF PyIn(g, {PyNone, PyStr("NA"), PyStr("Nan")})
    THEN Raise("ValueError", 60, <<"'graph' missing">>)
    ELSE IF ~IsInstanceGraph(g)
    THEN Raise("ValueError", 63, <<"'graph' must be an NetworkX graph object">>)
    ELSE LET nodes_names == get_label_list_graph(g)
             edge_weights == EdgeWeightKeys(g)
         IN  IF ListInLiterals(nodes_names, {PyNone, PyStr("NA"), PyStr("Nan")})
             THEN Raise("ValueError", 67, <<"'graph' must have node names.">>)
             ELSE IF IsNone(PyAny(nodes_names))
             THEN Raise("ValueError", 70, <<"'graph' cannot have NA as node names">>)
             ELSE IF NpUniqueRaises(nodes_names)
             THEN Raise("TypeError", 72, <<"'<' not supported">>)
             ELSE IF HasNonUniqueNames(nodes_names)
             THEN Raise("ValueError", 73,
                   <<"'graph' has non-unique names! Please check that the names are unique.">>)
             ELSE IF IsDirected(g)
             THEN Raise("Warning", 76,
                   <<"graph' should be an undirected NetworkX graph object.">>)
             ELSE IF Len(edge_weights) > 0 /\ IsNone(PyAny(edge_weights))
             THEN Raise("ValueError", 81,
                   <<"'graph' cannot contain NA edge weights, all must have weights.">>)
             ELSE IF Len(edge_weights) > 0 /\ PyLessThanZero(PyAny(edge_weights))
             THEN Raise("Warning", 83,
                   <<"'graph' should not contain negative edge weights.">>)
             ELSE Returned

\* ------------------------------------------------------------ _validate_K
\* isinstance(k, Matrix)
IsInstanceMatrix(x) == x.t = "Matrix"

\* A faulty variant of the squareness test, with > in place of !=.
IsNotSquareGreater(m) == NRows(m) > NCols(m)

\* n_rows != n_cols   (lines 96-98)
IsNotSquare(m) == NRows(m) # NCols(m)

\* list == list: element by element.
ListEq(xs, ys) ==
    Len(xs) = Len(ys) /\ \A i \in 1..Len(xs) : PyEq(xs[i], ys[i])

\* The checks of one cell (lines 112-119).
KElementFailure(score, col_label, row_label) ==
    IF ~IsInstanceFloat(score) /\ ~IsInstanceInt(score)
    THEN Raise("ValueError", 113,
          <<"'k' must be a numeric matrix, but it is not numeric.">>)
    ELSE IF PyIn(score, {PyStr("Nan"), PyNone})
    THEN Raise("ValueError", 116, <<"Scores input cannot contain NA. But background .">>)
    ELSE IF PyIn(col_label, {PyStr("Nan"), PyNone}) \/ PyIn(row_label, {PyStr("Nan"), PyNone})
    THEN Raise("ValueError", 119, <<"'k' dimnames cannot be NA.">>)
    ELSE NoFailure

\* The loop over the cells (lines 111-119).
RECURSIVE KCellLoop(_, _)
KCellLoop(cells, i) ==
    IF i > Len(cells) THEN NoFailure
    ELSE LET f == KElementFailure(cells[i].score, cells[i].col_label, cells[i].row_label)
         IN  IF f # NoFailure THEN f ELSE KCellLoop(cells, i + 1)

validate_K(m) ==
    IF ~IsInstanceMatrix(m)
    THEN Raise("ValueError", 90, <<"'k' must be a matrix">>)
    ELSE IF DtypeNotNumeric(m.dtype)
    THEN Raise("ValueError", 94,
          <<"'k' must be a numeric matrix, but it is not numeric.">>)
    ELSE IF IsNotSquare(m)
    THEN Raise("ValueError", 100,
          <<"'k' must be a square matrix, but it has ", ToString(NRows(m)),
            " rows and ", ToString(NCols(m)), " columns.">>)
    ELSE IF m.cols_labels = <<>>
    THEN Raise("ValueError", 103, <<"'k' kernel must have row names.">>)
    ELSE IF m.rows_labels = <<>>
    THEN Raise("ValueError", 106, <<"'k' kernel must have column names.">>)
    ELSE IF ~ListEq(m.rows_labels, m.cols_labels)
    THEN Raise("ValueError", 109, <<"'k' rownames and colnames must coincide.">>)
    ELSE LET c == KCellLoop(Iter(m), 1)
         IN  IF c # NoFailure THEN c
             ELSE IF NpUniqueRaises(m.rows_labels)
             THEN Raise("TypeError", 121, <<"'<' not supported">>)
             ELSE IF NpUniqueLen(m.rows_labels) # Len(m.rows_labels)
             THEN Raise("ValueError", 122, <<"'k' cannot contain duplicated row names.">>)
             ELSE IF NpUniqueRaises(m.cols_labels)
             THEN Raise("TypeError", 124, <<"'<' not supported">>)
             ELSE IF NpUniqueLen(m.cols_labels) # Len(m.cols_labels)
             THEN Raise("ValueError", 125,
                   <<"'k' cannot contain duplicated column names.">>)
             ELSE Returned

\* ------------------------------------------------------------------ inputs
GoodLabels == <<PyStr("A"), PyStr("B"), PyStr("C"), PyStr("D")>>

\* Label lists of a dimension of size n: none, the proper labels, or the
\* proper labels with None somewhere or 'Nan' in front.
LabelLists(n) ==
    {<<>>, SubSeq(GoodLabels, 1, n)}
      \cup {[SubSeq(GoodLabels, 1, n) EXCEPT ![p] = PyNone] : p \in 1..n}
      \cup {[SubSeq(GoodLabels, 1, n) EXCEPT ![1] = PyStr("Nan")]}

\* The cells of the arrays numpy builds, by dtype: float64 (possibly with
\* NaN), int64, strings, and object arrays, which hold a None beside numbers
\* and strings.
Dtypes == {"float64", "int64", "<U3", "object"}
CellValues(dtype) ==
    CASE dtype = "float64" -> {PyFloat(0), PyFloat(1), PyNaN}
      [] dtype = "int64" -> {NpInt(0), NpInt(1)}
      [] dtype = "<U3" -> {PyStr("NA"), PyStr("nan")}
      [] OTHER -> {PyNone, PyStr("NA"), PyInt(1)}

HasNone(a) == \E i \in DOMAIN a : \E j \in DOMAIN a[i] : IsNone(a[i][j])

\* scores is a Matrix of r rows and c columns.
IsScoresInput(m, r, c) ==
    \E dtype \in Dtypes :
      \E a \in [1..r -> [1..c -> CellValues(dtype)]] :
        \E rl \in LabelLists(r) : \E cl \in LabelLists(c) :
          /\ dtype = "object" => HasNone(a)
          /\ m = [mat |-> a, dtype |-> dtype, rows_labels |-> rl, cols_labels |-> cl]

\* The graph arguments: None, a string, an object that is no graph, and the
\* graphs (undirected and directed) of n nodes and e edges.
NodeNames == {PyStr("X"), PyStr("Y"), PyStr("Z"), PyNone}
EdgeValues == {[has |-> FALSE, weight |-> 0], [has |-> TRUE, weight |-> 1],
               [has |-> TRUE, weight |-> -1]}
\* The most edges a graph of n nodes has (loops included): one per pair of
\* nodes, ordered when the graph is directed.
MaxEdgeCount(t, n) == IF t = "networkx.DiGraph" THEN n * n ELSE (n * (n + 1)) \div 2
NotAGraph(obj) == [t |-> obj.t, n |-> obj.n, s |-> obj.s, nodes |-> <<>>, edges |-> <<>>]

IsGraphInput(g) ==
    \/ \E obj \in {PyNone, PyStr("NA"), PyStr("Nan"), PyStr("graph"), PyInt(1)} :
         g = NotAGraph(obj)
    \/ \E n \in 0..MaxNodes : \E e \in 0..MaxEdges :
         \E t \in {"networkx.Graph", "networkx.DiGraph"} :
           \E nodes \in [1..n -> NodeNames] : \E edges \in [1..e -> EdgeValues] :
             /\ e <= MaxEdgeCount(t, n)
             /\ g = [t |-> t, n |-> 0, s |-> "", nodes |-> nodes, edges |-> edges]

\* The kernel arguments: an object that is no Matrix, and the Matrix objects of
\* r rows and c columns.
KCellValues(dtype) ==
    CASE dtype = "float64" -> {PyFloat(1), PyNaN}
      [] dtype = "int64" -> {NpInt(1)}
      [] dtype = "<U3" -> {PyStr("NA")}
      [] OTHER -> {PyNone, PyInt(1)}

Reverse(xs) == [i \in 1..Len(xs) |-> xs[Len(xs) + 1 - i]]

\* Label lists of a kernel dimension of size n: none, the proper labels, the
\* proper labels in another order, with a None, or with a label repeated.
KLabelLists(n) ==
    {<<>>, SubSeq(GoodLabels, 1, n), Reverse(SubSeq(GoodLabels, 1, n))}
      \cup {[SubSeq(GoodLabels, 1, n) EXCEPT ![p] = PyNone] : p \in 1..n}
      \cup {[SubSeq(GoodLabels, 1, n) EXCEPT ![p] = PyStr("A")] : p \in 1..n}

IsKInput(m) ==
    \E r \in 1..MaxK : \E c \in 1..MaxK :
      \E t \in {"Matrix", "numpy.ndarray"} : \E dtype \in Dtypes :
        \E a \in [1..r -> [1..c -> KCellValues(dtype)]] :
          \E rl \in KLabelLists(r) : \E cl \in KLabelLists(c) :
            /\ dtype = "object" => HasNone(a)
            /\ t = "numpy.ndarray" => (dtype = "float64" /\ rl = <<>> /\ cl = <<>>)
            /\ m = [t |-> t, mat |-> a, dtype |-> dtype,
                    rows_labels |-> rl, cols_labels |-> cl]

\* What the variables of the validators that are not called hold.
NoScores ==
    [mat |-> <<<<PyFloat(0)>>>>, dtype |-> "float64",
     rows_labels |-> <<>>, cols_labels |-> <<>>]
NoGraph == NotAGraph(PyNone)
NoK ==
    [t |-> "numpy.ndarray", mat |-> <<<<PyFloat(1)>>>>, dtype |-> "float64",
     rows_labels |-> <<>>, cols_labels |-> <<>>]

\* ------------------------------------------------------------ state machine
Init ==
    /\ outcome = Pending
    /\ \/ /\ target = "scores"
          /\ \E r \in 1..MaxRows : \E c \in 1..MaxCols :
               r * c <= MaxCells /\ IsScoresInput(scores, r, c)
          /\ graph = NoGraph
          /\ k = NoK
       \/ /\ target = "graph"
          /\ IsGraphInput(graph)
          /\ scores = NoScores
          /\ k = NoK
       \/ /\ target = "kernel"
          /\ IsKInput(k)
          /\ scores = NoScores
          /\ graph = NoGraph

CallValidateScores ==
    /\ target = "scores"
    /\ outcome = Pending
    /\ outcome' = validate_scores(scores)
    /\ UNCHANGED <<target, scores, graph, k>>

CallValidateGraph ==
    /\ target = "graph"
    /\ outcome = Pending
    /\ outcome' = validate_graph(graph)
    /\ UNCHANGED <<target, scores, graph, k>>

CallValidateK ==
    /\ target = "kernel"
    /\ outcome = Pending
    /\ outcome' = validate_K(k)
    /\ UNCHANGED <<target, scores, graph, k>>

Next == CallValidateScores \/ CallValidateGraph \/ CallValidateK

Spec == Init /\ [][Next]_vars

Done == outcome # Pending

\* ------------------------------------------------------- the claims' terms
\* A label list is complete: not empty, and no label is None or 'Nan'.
LabelsComplete(ls) ==
    Len(ls) > 0 /\ \A i \in 1..Len(ls) : ~IsNone(ls[i]) /\ ls[i] # PyStr("Nan")

\* A missing-value sentinel: None, or one of the strings that stand for it.
IsSentinel(x) == IsNone(x) \/ x \in {PyStr("NA"), PyStr("Nan"), PyStr("nan")}

\* The values of column j are all equal.
ColumnAllEqual(m, j) ==
    \A i1 \in 1..NRows(m) : \A i2 \in 1..NRows(m) : PyEq(m.mat[i1][j], m.mat[i2][j])

\* The values of column j are numbers (no NaN) and not all equal: its standard
\* deviation is greater than 0.
ColumnSdPositive(m, j) ==
    /\ \A i \in 1..NRows(m) : IsNumber(m.mat[i][j]) /\ ~IsNaN(m.mat[i][j])
    /\ ~ColumnAllEqual(m, j)

\* The matrix passes the label checks and the element checks of the validator.
PassesLabelAndElementChecks(m) ==
    /\ Len(m.cols_labels) > 0
    /\ Len(m.rows_labels) > 0
    /\ \A i \in 1..NRows(m) : \A j \in 1..NCols(m) :
         /\ ~IsNone(m.mat[i][j])
         /\ IsInstanceFloat(m.mat[i][j]) \/ IsInstanceInt(m.mat[i][j])
         /\ ~PyIn(m.cols_labels[j], {PyStr("Nan"), PyNone})
         /\ ~PyIn(m.rows_labels[i], {PyStr("Nan"), PyNone})

\* The first column whose values are all equal.
FirstEqualColumn(m) ==
    CHOOSE j \in 1..NCols(m) :
      ColumnAllEqual(m, j) /\ \A j2 \in 1..(j - 1) : ~ColumnAllEqual(m, j2)

\* The graph is a graph object whose nodes all have a name.
NamesPresent(g) == IsInstanceGraph(g) /\ \A i \in 1..Len(g.nodes) : ~IsNone(g.nodes[i])
NamesUnique(g) ==
    \A i \in 1..Len(g.nodes) : \A j \in 1..Len(g.nodes) :
      g.nodes[i] = g.nodes[j] => i = j
SomeEdgeWeighted(g) == \E i \in 1..Len(g.edges) : g.edges[i].has
SomeEdgeUnweighted(g) == \E i \in 1..Len(g.edges) : ~g.edges[i].has
SomeWeightNegative(g) == \E i \in 1..Len(g.edges) : g.edges[i].has /\ g.edges[i].weight < 0
WeightsConsistent(g) == ~(SomeEdgeWeighted(g) /\ SomeEdgeUnweighted(g))

\* The message holds the text x as one of its parts.
MsgContains(msg, x) == \E i \in 1..Len(msg) : msg[i] = x

\* ---------------------------------------------------------------- claims
\* C1: for a graph object with all names present and unique and consistent
\* edge weights, validate_graph does not raise when the graph is directed: it
\* returns, and with an advisory.
C1_DirectedGraphReturnsWithAdvisory ==
    (/\ target = "graph" /\ Done
     /\ NamesPresent(graph) /\ NamesUnique(graph) /\ WeightsConsistent(graph)
     /\ IsDirected(graph))
    => (outcome.kind = "returned" /\ outcome.advisories # <<>>)

\* C2: a scores matrix with complete labels, every element a number of a
\* floating-point or integer element type, none missing, and every column's
\* standard deviation greater than 0 is validated without raising.
C2_ValidScoresComplete ==
    (/\ target = "scores" /\ Done
     /\ LabelsComplete(scores.rows_labels) /\ LabelsComplete(scores.cols_labels)
     /\ scores.dtype \in {"float64", "int64"}
     /\ \A j \in 1..NCols(scores) : ColumnSdPositive(scores, j))
    => outcome.kind = "returned"

\* C3: validate_scores raises its failure whenever some cell of the matrix is
\* a missing-value sentinel, wherever the cell is and whatever the other cells
\* hold, the label lists being non-empty.
C3_MissingCellRaises ==
    (/\ target = "scores" /\ Done
     /\ Len(scores.rows_labels) > 0 /\ Len(scores.cols_labels) > 0
     /\ \E i \in 1..NRows(scores) : \E j \in 1..NCols(scores) :
          IsSentinel(scores.mat[i][j]))
    => outcome.kind = "ValueError"

\* C3's case: the last cell of a matrix of several cells is None, no other
\* cell is a sentinel, and the call raised for it.
C3_Witness ==
    /\ target = "scores" /\ Done
    /\ NRows(scores) > 1 /\ NCols(scores) > 1
    /\ LabelsComplete(scores.rows_labels) /\ LabelsComplete(scores.cols_labels)
    /\ \A i \in 1..NRows(scores) : \A j \in 1..NCols(scores) :
         IsNone(scores.mat[i][j]) <=> (i = NRows(scores) /\ j = NCols(scores))
    /\ \A i \in 1..NRows(scores) : \A j \in 1..NCols(scores) :
         scores.mat[i][j].t # "str"
    /\ outcome.kind = "ValueError" /\ outcome.line = 35

C5_NonSquareMessageHasCounts ==
    (/\ target = "kernel" /\ Done
     /\ IsInstanceMatrix(k) /\ NRows(k) # NCols(k))
    => /\ outcome.kind = "ValueError"
       /\ MsgContains(outcome.msg, ToString(NRows(k)))
       /\ MsgContains(outcome.msg, ToString(NCols(k)))

\* C5's case: a Matrix with fewer rows than columns, no labels and a
\* non-numeric cell was rejected as not square.
C5_Witness ==
    /\ target = "kernel" /\ Done
    /\ IsInstanceMatrix(k) /\ NRows(k) < NCols(k)
    /\ k.rows_labels = <<>> /\ k.dtype = "object"
    /\ outcome.line = 100

\* C6: for a graph object whose names are all present, validate_graph raises
\* its failure whenever two nodes have the same name, directed or not and
\* whatever the edge weights.
C6_DuplicateNamesRaise ==
    (/\ target = "graph" /\ Done
     /\ NamesPresent(graph) /\ ~NamesUnique(graph))
    => (outcome.kind = "ValueError" /\ outcome.line = 73)

\* C6's case: a directed graph with inconsistent edge weights in which the
\* first and the last of three nodes share a name was rejected for it.
C6_Witness ==
    /\ target = "graph" /\ Done
    /\ NamesPresent(graph) /\ IsDirected(graph) /\ ~WeightsConsistent(graph)
    /\ Len(graph.nodes) = 3
    /\ graph.nodes[1] = graph.nodes[3] /\ graph.nodes[1] # graph.nodes[2]
    /\ outcome.line = 73

\* C7: for an otherwise valid undirected graph with a weighted edge,
\* validate_graph raises when some edge has no weight, and, when every edge has
\* a weight and one is negative, returns with an advisory.
C7_WeightsAllOrNothing ==
    (/\ target = "graph" /\ Done
     /\ NamesPresent(graph) /\ NamesUnique(graph) /\ ~IsDirected(graph)
     /\ SomeEdgeWeighted(graph))
    => /\ SomeEdgeUnweighted(graph) => outcome.kind = "ValueError"
       /\ (~SomeEdgeUnweighted(graph) /\ SomeWeightNegative(graph))
            => (outcome.kind = "returned" /\ outcome.advisories # <<>>)

\* C8: validate_scores never returns silently for a matrix with a
\* not-a-number element.
C8_NaNNeverSilent ==
    (/\ target = "scores" /\ Done
     /\ \E i \in 1..NRows(scores) : \E j \in 1..NCols(scores) : IsNaN(scores.mat[i][j]))
    => outcome.kind # "returned"

\* C9: validate_kernel raises the failure of the first violated check in the
\* order Matrix, numeric data, square, ...: a Matrix whose data is of a
\* non-numeric element type and which is not square fails as not numeric.
C9_NotNumericBeforeNotSquare ==
    (/\ target = "kernel" /\ Done
     /\ IsInstanceMatrix(k)
     /\ k.dtype \notin {"float64", "int64"}
     /\ NRows(k) # NCols(k))
    => (outcome.kind = "ValueError" /\ outcome.line = 94)

\* C10: for a graph object in which some node has no name, validate_graph
\* never returns silently.
C10_MissingNameNeverSilent ==
    (/\ target = "graph" /\ Done
     /\ IsInstanceGraph(graph)
     /\ \E i \in 1..Len(graph.nodes) : IsNone(graph.nodes[i]))
    => outcome.kind # "returned"
====
